---- MODULE Spec2Model ----
(***************************************************************************)
(* Pool<TType> and Pool<TType>::Object of libftpp                          *)
(* (libftpp/inc/data_structures/pool.hpp): the slot store m_objects, the   *)
(* free-index stack m_available and the move-only RAII handles; with       *)
(* StateMachine<TState> (state_machine.hpp) and Singleton<TType>           *)
(* (design_patterns/singleton.hpp) of the same library.                    *)
(***************************************************************************)
EXTENDS Integers, Sequences, FiniteSets, TLC

(* ------------------------------ bounds -------------------------------- *)
\* largest capacity passed to resize
MaxCap == 3
\* number of Object variables the callers hold
MaxHandles == 2
\* constructor arguments are 1..MaxVal
MaxVal == 1
\* the values of TState are 1..MaxStates
MaxStates == 2
\* the types Singleton is instantiated for are 1..MaxTypes
MaxTypes == 3

(* ----------------------------- constants ------------------------------ *)
\* testObjectReuse: `for (int i = 1; i <= 3; i++)` leases in a row
Rounds == 3

(* ------------------------- values of the model ------------------------ *)
\* the state of a slot built by `new TType()`
Default == 0
\* a slot whose destructor has run and whose constructor has not completed
Dead == -1
\* nullptr
NULL == 0
\* the address of the one pool the handles refer to (`this` in acquire)
THIS == 1

\* a TState member that has not been assigned
NoState == 0

Handles == 1..MaxHandles
Args == 1..MaxVal
States == 1..MaxStates
Types == 1..MaxTypes

VARIABLES
    m_objects,    \* Seq: the contents of the object each m_objects[i] points to
    m_available,  \* Seq of indices, the back of the vector is the top of the stack
    objs,         \* [Handles -> record]: the Pool::Object variables of the callers
    staleLease,   \* a resize succeeded while a non-empty handle was alive
    crashed,      \* the process was ended by undefined behaviour
    lastOp,       \* the last call: op, its outcome res, the index idx it bound or
                  \* pushed back (-1: none), the capacity n a resize established;
                  \* for a const member function: res the boolean or n the number
                  \* it returned, idx the Object isValid was called on
    pc,           \* per caller: the statement of acquire it is at ("idle": in no call)
    acqIndex,     \* per caller: the local variable `index` of its acquire call
    raced,        \* a call has run while another caller was inside acquire
    names_used,   \* testObjectReuse: per lease in turn, the slot, the arguments of
                  \* the acquire and the value read through the handle
    resizeFrame,  \* the resize call in progress: its statement, its argument, its
                  \* locals oldObjects and oldAvailable, and how many old objects
                  \* it has deleted
    m_currentState,  \* StateMachine: the current state (NoState: not yet assigned)
    m_hasState,      \* StateMachine: a state has been added
    m_states,        \* StateMachine: the keys of the map of valid states
    m_actions,       \* StateMachine: the keys of the map of state actions
    m_transitions,   \* StateMachine: the keys <<from, to>> of the map of transitions
    smLast,          \* StateMachine: the last call: op, its outcome res, the state
                     \* arg passed to addState or transitionTo, the current state
                     \* from before a transitionTo (and, for an update that follows
                     \* a failed transitionTo, before that one), the state ran
                     \* whose action update ran (NoState: none)
    s_instance,      \* Singleton: per type, the object s_instance points to (NULL: none)
    sgLast,          \* Singleton: the last call, its type, its outcome and the
                     \* pointer it returned
    twins            \* two pools of one program that makes every call on both:
                     \* per pool its m_objects, m_available, the Object variables
                     \* objs bound to it, crashed, and the index its last acquire
                     \* bound (-1: none)

\* the state of the callers that run acquire statement by statement
threadVars == <<pc, acqIndex, raced>>

\* the pool, its handles and the record of the last call
poolVars == <<m_objects, m_available, objs, staleLease, crashed, lastOp>>

\* the members of StateMachine<TState> and the record of its last call
machineVars == <<m_currentState, m_hasState, m_states, m_actions, m_transitions, smLast>>

\* the static member of Singleton<TType> and the record of its last call
singletonVars == <<s_instance, sgLast>>

\* what the atomic calls on the pool and its handles never touch
restVars == <<names_used, resizeFrame, machineVars, singletonVars, twins>>

vars == <<m_objects, m_available, objs, staleLease, crashed, lastOp, pc, acqIndex, raced,
          names_used, resizeFrame, m_currentState, m_hasState, m_states, m_actions,
          m_transitions, smLast, s_instance, sgLast, twins>>

(* ------------------------------ helpers ------------------------------- *)
\* zero-based vector access, v[i] in the code
At(v, i) == v[i + 1]

\* std::vector::back
Back(v) == v[Len(v)]

\* std::vector::pop_back
PopBack(v) == SubSeq(v, 1, Len(v) - 1)

\* the pointer stored in m_objects[index]; slot i of the store is named i + 1
PtrTo(index) == index + 1

\* an Object variable that does not exist (not yet constructed, or destroyed)
NoObject == [live |-> FALSE, m_ptr |-> NULL, m_pool |-> NULL, m_index |-> 0]

(* --------------------------- Pool<TType> ------------------------------ *)
\* returnToPool that forgets the push
returnToPool_Drop(available, index) == available

\* returnToPool that inserts at the front of the vector
returnToPool_PushFront(available, index) == <<index>> \o available

\* Pool::returnToPool
returnToPool(available, index) == Append(available, index)

\* returnToPool that erases the slot from the store
returnToPoolObjects_Erases(objects, index) ==
    IF index < Len(objects)
    THEN SubSeq(objects, 1, index) \o SubSeq(objects, index + 2, Len(objects))
    ELSE objects

\* returnToPool that also runs the destructor of the slot's object
returnToPoolObjects_Destroys(objects, index) ==
    IF index < Len(objects) THEN [objects EXCEPT ![index + 1] = Dead] ELSE objects

\* Pool::returnToPool: m_objects after the call; the body is the one push_back on
\* m_available and touches neither m_objects nor the object the slot points to
returnToPoolObjects(objects, index) == objects

\* Pool::size
size == Len(m_objects)

\* Pool::available
available == Len(m_available)

\* Pool::inUse
inUse == Len(m_objects) - Len(m_available)

\* Pool::isEmpty
isEmpty == Len(m_available) = 0

\* an isFull that tests the free-index stack for emptiness
isFull_AsEmpty == Len(m_available) = 0

\* Pool::isFull
isFull == Len(m_available) = Len(m_objects)

\* a resize loop that pushes the indices from n - 1 down to 0
ResizeBuiltAvailable_Descending(n, k) ==
    [i \in 1..(IF k < n THEN k ELSE n) |-> n - i]

\* the objects resize has pushed when `new TType()` number k throws (k = n: none does)
ResizeBuiltObjects(n, k) == [i \in 1..(IF k < n THEN k ELSE n) |-> Default]

\* the indices resize has pushed at that point
ResizeBuiltAvailable(n, k) == [i \in 1..(IF k < n THEN k ELSE n) |-> i - 1]

\* resize without the two std::move at its top: it pushes onto the old vectors
resize_AppendsToOld(objects, avail, n, k) ==
    IF k = n
    THEN [m_objects |-> objects \o ResizeBuiltObjects(n, k),
          m_available |-> avail \o ResizeBuiltAvailable(n, k),
          res |-> "ok"]
    ELSE [m_objects |-> objects, m_available |-> avail,
          res |-> IF k = -1 THEN "bad_alloc" ELSE "ctor_threw"]

\* resize whose catch block restores m_objects only
resize_NoRestoreAvailable(objects, avail, n, k) ==
    IF k = n
    THEN [m_objects |-> ResizeBuiltObjects(n, k),
          m_available |-> ResizeBuiltAvailable(n, k),
          res |-> "ok"]
    ELSE [m_objects |-> objects, m_available |-> ResizeBuiltAvailable(n, k),
          res |-> IF k = -1 THEN "bad_alloc" ELSE "ctor_threw"]

\* Pool::resize(n): k = -1 the reserve throws, 0 <= k < n the k-th `new TType()`
\* throws, k = n nothing throws.  The two vectors are moved out first, the loop
\* fills the emptied members, and the catch block moves the saved vectors back
\* over whatever the loop has built.
resize(objects, avail, n, k) ==
    LET oldObjects == objects
        oldAvailable == avail
        builtObjects == <<>> \o ResizeBuiltObjects(n, k)
        builtAvailable == <<>> \o ResizeBuiltAvailable(n, k)
    IN  IF k = n
        THEN [m_objects |-> builtObjects, m_available |-> builtAvailable,
              res |-> "ok"]
        ELSE [m_objects |-> oldObjects, m_available |-> oldAvailable,
              res |-> IF k = -1 THEN "bad_alloc" ELSE "ctor_threw"]

\* a catch block that rethrows without the push_back
acquireRollback_NoPush(popped, index) == popped

\* the catch block of acquire: the popped index goes back on the stack
acquireRollback(popped, index) == Append(popped, index)

\* acquire reads m_objects[index] past the end of the vector, or runs ~TType() on a
\* slot whose object is already destroyed
acquireUndefined(objects, avail) ==
    IF Len(avail) = 0 THEN FALSE
    ELSE IF Back(avail) >= Len(objects) THEN TRUE
    ELSE At(objects, Back(avail)) = Dead

\* acquire that hands out the slot as its last lease left it when it holds an
\* object of an earlier lease
acquire_KeepsOldObject(objects, avail, args, throws, ubCrash) ==
    IF Len(avail) = 0
    THEN [m_objects |-> objects, m_available |-> avail,
          res |-> "PoolExhausted", index |-> -1]
    ELSE LET index == Back(avail)
         IN  IF index >= Len(objects) \/ objects[index + 1] = Dead
             THEN [m_objects |-> objects, m_available |-> PopBack(avail),
                   res |-> "crash", index |-> index]
             ELSE IF throws
             THEN [m_objects |-> [objects EXCEPT ![index + 1] = Dead],
                   m_available |-> avail, res |-> "ctor_threw", index |-> index]
             ELSE [m_objects |-> IF objects[index + 1] = Default
                                 THEN [objects EXCEPT ![index + 1] = args]
                                 ELSE objects,
                   m_available |-> PopBack(avail), res |-> "ok", index |-> index]

\* acquire that destroys and constructs through m_objects[0] whatever it popped
acquire_BuildsInFirstSlot(objects, avail, args, throws, ubCrash) ==
    IF Len(avail) = 0
    THEN [m_objects |-> objects, m_available |-> avail,
          res |-> "PoolExhausted", index |-> -1]
    ELSE LET index == Back(avail)
         IN  IF ubCrash
             THEN [m_objects |-> objects, m_available |-> PopBack(avail),
                   res |-> "crash", index |-> index]
             ELSE IF throws
             THEN [m_objects |-> [objects EXCEPT ![1] = Dead],
                   m_available |-> avail, res |-> "ctor_threw", index |-> index]
             ELSE [m_objects |-> [objects EXCEPT ![1] = args],
                   m_available |-> PopBack(avail), res |-> "ok", index |-> index]

\* acquire that prefers a free slot whose object equals the arguments, so that
\* the index it binds depends on what earlier leases constructed
acquire_PrefersMatching(objects, avail, args, throws, ubCrash) ==
    IF Len(avail) = 0
    THEN [m_objects |-> objects, m_available |-> avail,
          res |-> "PoolExhausted", index |-> -1]
    ELSE LET matching == {j \in 1..Len(avail) : objects[avail[j] + 1] = args}
             pos == IF matching = {} THEN Len(avail)
                    ELSE CHOOSE j \in matching : \A i \in matching : i <= j
             index == avail[pos]
         IN  IF throws
             THEN [m_objects |-> [objects EXCEPT ![index + 1] = Dead],
                   m_available |-> avail, res |-> "ctor_threw", index |-> index]
             ELSE [m_objects |-> [objects EXCEPT ![index + 1] = args],
                   m_available |-> SubSeq(avail, 1, pos - 1)
                                      \o SubSeq(avail, pos + 1, Len(avail)),
                   res |-> "ok", index |-> index]

\* acquire without the empty() test: back() on an empty vector ends the process
acquire_NoEmptyCheck(objects, avail, args, throws, ubCrash) ==
    IF Len(avail) = 0
    THEN [m_objects |-> objects, m_available |-> avail, res |-> "crash", index |-> -1]
    ELSE LET index == Back(avail)
         IN  IF throws
             THEN [m_objects |-> [objects EXCEPT ![index + 1] = Dead],
                   m_available |-> avail, res |-> "ctor_threw", index |-> index]
             ELSE [m_objects |-> [objects EXCEPT ![index + 1] = args],
                   m_available |-> PopBack(avail), res |-> "ok", index |-> index]

\* acquire that tests size() <= 1 instead of empty(): the last free slot is refused
acquire_OffByOne(objects, avail, args, throws, ubCrash) ==
    IF Len(avail) <= 1
    THEN [m_objects |-> objects, m_available |-> avail,
          res |-> "PoolExhausted", index |-> -1]
    ELSE LET index == Back(avail)
         IN  IF throws
             THEN [m_objects |-> [objects EXCEPT ![index + 1] = Dead],
                   m_available |-> avail, res |-> "ctor_threw", index |-> index]
             ELSE [m_objects |-> [objects EXCEPT ![index + 1] = args],
                   m_available |-> PopBack(avail), res |-> "ok", index |-> index]

\* Pool::acquire(args).  throws: the constructor TType(args) throws.  ubCrash: the
\* outcome when the call runs into undefined behaviour (m_objects[index] past the
\* end of the vector, or ~TType() on a slot whose object is already destroyed):
\* TRUE the process is ended, FALSE the call goes on as if the object were there.
acquire(objects, avail, args, throws, ubCrash) ==
    IF Len(avail) = 0
    THEN [m_objects |-> objects, m_available |-> avail,
          res |-> "PoolExhausted", index |-> -1]
    ELSE LET index == Back(avail)
             popped == PopBack(avail)
             inRange == index < Len(objects)
             undefined == acquireUndefined(objects, avail)
             destroyed == IF inRange THEN [objects EXCEPT ![index + 1] = Dead]
                          ELSE objects
             built == IF inRange THEN [objects EXCEPT ![index + 1] = args]
                      ELSE objects
         IN  IF undefined /\ ubCrash
             THEN [m_objects |-> objects, m_available |-> popped,
                   res |-> "crash", index |-> index]
             ELSE IF throws
             THEN [m_objects |-> destroyed,
                   m_available |-> acquireRollback(popped, index),
                   res |-> "ctor_threw", index |-> index]
             ELSE [m_objects |-> built, m_available |-> popped,
                   res |-> "ok", index |-> index]

(* ------------------------ Pool<TType>::Object ------------------------- *)
\* Object::Object(ptr, pool, index)
ObjectCtor(ptr, pool, index) ==
    [live |-> TRUE, m_ptr |-> ptr, m_pool |-> pool, m_index |-> index]

\* an isValid that answers true for every handle
isValid_Always(self) == TRUE

\* Object::isValid
isValid(self) == self.m_ptr # NULL /\ self.m_pool # NULL

\* a destructor without the m_ptr && m_pool test
ObjectDtor_NoCheck(self, avail) == returnToPool(avail, self.m_index)

\* Object::~Object: the free-index stack after the destructor has run
ObjectDtor(self, avail) ==
    IF self.m_ptr # NULL /\ self.m_pool # NULL
    THEN returnToPool(avail, self.m_index)
    ELSE avail

\* a move constructor that leaves other as it was (a copy)
ObjectMoveCtor_NoClear(other) ==
    [self |-> [live |-> TRUE, m_ptr |-> other.m_ptr, m_pool |-> other.m_pool,
               m_index |-> other.m_index],
     other |-> other]

\* Object::Object(Object&& other): the new object and what is left of other
ObjectMoveCtor(other) ==
    [self |-> [live |-> TRUE, m_ptr |-> other.m_ptr, m_pool |-> other.m_pool,
               m_index |-> other.m_index],
     other |-> [other EXCEPT !.m_ptr = NULL, !.m_pool = NULL]]

\* a move assignment without the `this != &other` test: the handle returns its
\* index, copies its own members and then clears them
ObjectMoveAssign_NoSelfCheck(self, other, same, avail) ==
    IF same
    THEN [self |-> [self EXCEPT !.m_ptr = NULL, !.m_pool = NULL],
          other |-> [other EXCEPT !.m_ptr = NULL, !.m_pool = NULL],
          m_available |-> IF self.m_ptr # NULL /\ self.m_pool # NULL
                          THEN returnToPool(avail, self.m_index)
                          ELSE avail]
    ELSE [self |-> [self EXCEPT !.m_ptr = other.m_ptr, !.m_pool = other.m_pool,
                                !.m_index = other.m_index],
          other |-> [other EXCEPT !.m_ptr = NULL, !.m_pool = NULL],
          m_available |-> IF self.m_ptr # NULL /\ self.m_pool # NULL
                          THEN returnToPool(avail, self.m_index)
                          ELSE avail]

\* a move assignment that returns the target's index without testing the target
ObjectMoveAssign_NoValidCheck(self, other, same, avail) ==
    IF same
    THEN [self |-> self, other |-> other, m_available |-> avail]
    ELSE [self |-> [self EXCEPT !.m_ptr = other.m_ptr, !.m_pool = other.m_pool,
                                !.m_index = other.m_index],
          other |-> [other EXCEPT !.m_ptr = NULL, !.m_pool = NULL],
          m_available |-> returnToPool(avail, self.m_index)]

\* a move assignment that overwrites the target without returning its index
ObjectMoveAssign_NoRelease(self, other, same, avail) ==
    IF same
    THEN [self |-> self, other |-> other, m_available |-> avail]
    ELSE [self |-> [self EXCEPT !.m_ptr = other.m_ptr, !.m_pool = other.m_pool,
                                !.m_index = other.m_index],
          other |-> [other EXCEPT !.m_ptr = NULL, !.m_pool = NULL],
          m_available |-> avail]

\* Object::operator=(Object&& other); same: this == &other
ObjectMoveAssign(self, other, same, avail) ==
    IF same
    THEN [self |-> self, other |-> other, m_available |-> avail]
    ELSE [self |-> [self EXCEPT !.m_ptr = other.m_ptr, !.m_pool = other.m_pool,
                                !.m_index = other.m_index],
          other |-> [other EXCEPT !.m_ptr = NULL, !.m_pool = NULL],
          m_available |-> IF self.m_ptr # NULL /\ self.m_pool # NULL
                          THEN returnToPool(avail, self.m_index)
                          ELSE avail]

(* ------------------------------ actions ------------------------------- *)
\* the handles that own a binding
Leases == {h \in Handles : objs[h].live /\ isValid(objs[h])}

\* the Object variables not in scope
Unused == {h \in Handles : ~objs[h].live}

\* the Object variable the next declaration brings into scope
Fresh == CHOOSE h \in Unused : \A g \in Unused : h <= g

\* a pool no call has been made on, and no Object bound to it
NewPool ==
    [m_objects |-> <<>>, m_available |-> <<>>,
     objs |-> [h \in Handles |-> NoObject], crashed |-> FALSE, index |-> -1]

\* no resize call is in progress
NoFrame ==
    [at |-> "idle", n |-> 0, oldObjects |-> <<>>, oldAvailable |-> <<>>,
     deleted |-> 0, res |-> "ok"]

\* Pool<TType> pool;  with no Object declared yet
\* StateMachine<TState> sm;  m_hasState(false), the maps empty, m_currentState
\* not assigned
\* std::unique_ptr<TType> Singleton<TType>::s_instance = nullptr;  for every type
\* Pool<TType> first, second;  the two pools of the program that drives both
Init ==
    /\ m_objects = <<>>
    /\ m_available = <<>>
    /\ objs = [h \in Handles |-> NoObject]
    /\ staleLease = FALSE
    /\ crashed = FALSE
    /\ lastOp = [op |-> "Pool", res |-> "ok", idx |-> -1, n |-> 0]
    /\ pc = [t \in Handles |-> "idle"]
    /\ acqIndex = [t \in Handles |-> -1]
    /\ raced = FALSE
    /\ names_used = <<>>
    /\ resizeFrame = NoFrame
    /\ m_currentState = NoState
    /\ m_hasState = FALSE
    /\ m_states = {}
    /\ m_actions = {}
    /\ m_transitions = {}
    /\ smLast = [op |-> "StateMachine", res |-> "ok", arg |-> NoState,
                 from |-> NoState, ran |-> NoState]
    /\ s_instance = [t \in Types |-> NULL]
    /\ sgLast = [op |-> "none", type |-> 0, res |-> "ok", ret |-> NULL]
    /\ twins = [i \in 1..2 |-> NewPool]

\* pool.resize(n)
Resize(n, k) ==
    /\ ~crashed
    /\ LET r == resize(m_objects, m_available, n, k)
       IN  /\ m_objects' = r.m_objects
           /\ m_available' = r.m_available
           /\ staleLease' = IF r.res = "ok" THEN Leases # {} ELSE staleLease
           /\ lastOp' = [op |-> "resize", res |-> r.res, idx |-> -1,
                         n |-> IF r.res = "ok" THEN n ELSE 0]
    /\ UNCHANGED <<objs, crashed, threadVars, restVars>>

\* Pool<TType>::Object h = pool.acquire(args);  h is the next Object variable the
\* caller declares; a call that throws constructs none
Acquire(args, throws, ubCrash) ==
    /\ ~crashed
    /\ ubCrash => acquireUndefined(m_objects, m_available)
    /\ LET r == acquire(m_objects, m_available, args, throws, ubCrash)
       IN  /\ r.res = "ok" => Unused # {}
           /\ m_objects' = r.m_objects
           /\ m_available' = r.m_available
           /\ crashed' = (r.res = "crash")
           /\ objs' = IF r.res = "ok"
                      THEN [objs EXCEPT ![Fresh] = ObjectCtor(PtrTo(r.index), THIS, r.index)]
                      ELSE objs
           /\ lastOp' = [op |-> "acquire", res |-> r.res, idx |-> r.index, n |-> 0]
    /\ UNCHANGED <<staleLease, threadVars, restVars>>

\* the Object h goes out of scope
Dispose(h) ==
    /\ ~crashed
    /\ objs[h].live
    /\ m_available' = ObjectDtor(objs[h], m_available)
    /\ objs' = [objs EXCEPT ![h] = NoObject]
    /\ lastOp' = [op |-> "dispose",
                  res |-> IF isValid(objs[h]) THEN "returned" ELSE "noop",
                  idx |-> IF isValid(objs[h]) THEN objs[h].m_index ELSE -1,
                  n |-> 0]
    /\ m_objects' = IF isValid(objs[h])
                    THEN returnToPoolObjects(m_objects, objs[h].m_index)
                    ELSE m_objects
    /\ UNCHANGED <<staleLease, crashed, threadVars, restVars>>

\* Pool<TType>::Object h(std::move(src));  h is the next Object variable declared
MoveConstruct(src) ==
    /\ ~crashed
    /\ Unused # {}
    /\ objs[src].live
    /\ LET r == ObjectMoveCtor(objs[src])
       IN  objs' = [objs EXCEPT ![Fresh] = r.self, ![src] = r.other]
    /\ lastOp' = [op |-> "move_ctor", res |-> "ok", idx |-> -1, n |-> 0]
    /\ UNCHANGED <<m_objects, m_available, staleLease, crashed, threadVars, restVars>>

\* h = std::move(src);
MoveAssign(h, src) ==
    /\ ~crashed
    /\ objs[h].live
    /\ objs[src].live
    /\ LET r == ObjectMoveAssign(objs[h], objs[src], h = src, m_available)
       IN  /\ objs' = IF h = src THEN [objs EXCEPT ![h] = r.self]
                      ELSE [objs EXCEPT ![h] = r.self, ![src] = r.other]
           /\ m_available' = r.m_available
    /\ lastOp' = [op |-> "move_assign", res |-> IF h = src THEN "self" ELSE "ok",
                  idx |-> IF h # src /\ isValid(objs[h]) THEN objs[h].m_index ELSE -1,
                  n |-> 0]
    /\ m_objects' = IF h # src /\ isValid(objs[h])
                    THEN returnToPoolObjects(m_objects, objs[h].m_index)
                    ELSE m_objects
    /\ UNCHANGED <<staleLease, crashed, threadVars, restVars>>

\* pool.resize(n) called while no lease is outstanding
ResizeIdle(n, k) ==
    /\ Leases = {}
    /\ Resize(n, k)

\* the supported use: resize is called while no lease is outstanding
Next ==
    \/ \E n \in 0..MaxCap : \E k \in (-1)..n : ResizeIdle(n, k)
    \/ \E args \in Args, throws \in BOOLEAN, ubCrash \in BOOLEAN :
          Acquire(args, throws, ubCrash)
    \/ \E h \in Handles : Dispose(h)
    \/ \E src \in Handles : MoveConstruct(src)
    \/ \E h \in Handles, src \in Handles : MoveAssign(h, src)

Spec == Init /\ [][Next]_vars

\* any use: resize is also called while leases are outstanding
NextAnyResize ==
    \/ \E n \in 0..MaxCap : \E k \in (-1)..n : Resize(n, k)
    \/ \E args \in Args, throws \in BOOLEAN, ubCrash \in BOOLEAN :
          Acquire(args, throws, ubCrash)
    \/ \E h \in Handles : Dispose(h)
    \/ \E src \in Handles : MoveConstruct(src)
    \/ \E h \in Handles, src \in Handles : MoveAssign(h, src)

SpecAnyResize == Init /\ [][NextAnyResize]_vars

\* resize called at any time by callers that never move their handles; a move
\* changes no member of the pool other than by the returnToPool of a disposal
NextAnyResizeNoMoves ==
    \/ \E n \in 0..MaxCap : \E k \in (-1)..n : Resize(n, k)
    \/ \E args \in Args, throws \in BOOLEAN, ubCrash \in BOOLEAN :
          Acquire(args, throws, ubCrash)
    \/ \E h \in Handles : Dispose(h)

SpecAnyResizeNoMoves == Init /\ [][NextAnyResizeNoMoves]_vars

(* --------------------------- Pool<TType>::~Pool ------------------------ *)
\* the pool object has not been destroyed
PoolAlive == lastOp.op # "~Pool"

\* `delete ptr` in ~Pool is undefined: some slot's object is already destroyed
destroyUndefined(objects) == \E j \in 1..Len(objects) : objects[j] = Dead

\* the pool goes out of scope: ~Pool runs `delete ptr` on every slot, then the two
\* vectors are destroyed.  ubCrash: the outcome when a slot's object is already
\* destroyed, TRUE the process is ended, FALSE the destructor goes on.  The
\* handles still in scope keep their members.
PoolDtor(ubCrash) ==
    /\ ~crashed
    /\ PoolAlive
    /\ ubCrash => destroyUndefined(m_objects)
    /\ crashed' = ubCrash
    /\ m_objects' = IF ubCrash THEN m_objects ELSE <<>>
    /\ m_available' = IF ubCrash THEN m_available ELSE <<>>
    /\ lastOp' = [op |-> "~Pool", res |-> IF ubCrash THEN "crash" ELSE "ok",
                  idx |-> -1, n |-> 0]
    /\ UNCHANGED <<objs, staleLease, threadVars, restVars>>

\* the supported use of a pool up to and including its destruction
NextLifetime ==
    \/ \E n \in 0..MaxCap : \E k \in (-1)..n : PoolAlive /\ ResizeIdle(n, k)
    \/ \E args \in Args, throws \in BOOLEAN, ubCrash \in BOOLEAN :
          PoolAlive /\ Acquire(args, throws, ubCrash)
    \/ \E h \in Handles : PoolAlive /\ Dispose(h)
    \/ \E src \in Handles : PoolAlive /\ MoveConstruct(src)
    \/ \E h \in Handles, src \in Handles : PoolAlive /\ MoveAssign(h, src)
    \/ \E ubCrash \in BOOLEAN : PoolDtor(ubCrash)

SpecLifetime == Init /\ [][NextLifetime]_vars

(* ----------------------- const member functions ------------------------ *)
\* the const member functions of the pool
PoolObservers == {"size", "available", "inUse", "isEmpty", "isFull"}

\* a const member function that pops the free-index stack
constMember_Pops(avail) == IF Len(avail) = 0 THEN avail ELSE PopBack(avail)

\* m_available after a const member function of the pool, whose body is one
\* return statement
constMember(avail) == avail

\* the record of a call that returned the number ret
Returned(fn, ret) == [op |-> fn, res |-> "ok", idx |-> -1, n |-> ret]

\* the record of a call that returned the boolean ret; h: the Object it was
\* called on (-1: the pool)
Answered(fn, ret, h) ==
    [op |-> fn, res |-> IF ret THEN "true" ELSE "false", idx |-> h, n |-> 0]

\* what a call of the const member function fn of the pool returns
observe(fn) ==
    CASE fn = "size" -> Returned(fn, size)
      [] fn = "available" -> Returned(fn, available)
      [] fn = "inUse" -> Returned(fn, inUse)
      [] fn = "isEmpty" -> Answered(fn, isEmpty, -1)
      [] fn = "isFull" -> Answered(fn, isFull, -1)

\* pool.size(), pool.available(), pool.inUse(), pool.isEmpty(), pool.isFull()
Observe(fn) ==
    /\ ~crashed
    /\ lastOp' = observe(fn)
    /\ m_available' = constMember(m_available)
    /\ UNCHANGED <<m_objects, objs, staleLease, crashed, threadVars, restVars>>

\* h.isValid()
ObserveIsValid(h) ==
    /\ ~crashed
    /\ objs[h].live
    /\ lastOp' = Answered("isValid", isValid(objs[h]), h)
    /\ m_available' = constMember(m_available)
    /\ UNCHANGED <<m_objects, objs, staleLease, crashed, threadVars, restVars>>

\* callers that resize, acquire, dispose and move their handles into new ones,
\* and between any two of these calls call the const member functions
NextObservers ==
    \/ \E n \in 0..MaxCap : \E k \in (-1)..n : ResizeIdle(n, k)
    \/ \E args \in Args, throws \in BOOLEAN, ubCrash \in BOOLEAN :
          Acquire(args, throws, ubCrash)
    \/ \E h \in Handles : Dispose(h)
    \/ \E src \in Handles : MoveConstruct(src)
    \/ \E fn \in PoolObservers : Observe(fn)
    \/ \E h \in Handles : ObserveIsValid(h)

SpecObservers == Init /\ [][NextObservers]_vars

(* ------------------- one program driving two pools --------------------- *)
\* A program holds two pools and makes every call on both: the same resize, the
\* same acquire with the same constructor outcome, and the same disposal or move
\* of the Object variable of the same name.  The constructor arguments it passes
\* to the second pool differ from those it passes to the first, and where a call
\* runs into undefined behaviour each pool has its own outcome.  twins[i] is
\* pool i with the Object variables bound to it.

\* what the calls on the two pools leave alone
twinRest == <<poolVars, threadVars, names_used, resizeFrame, machineVars, singletonVars>>

\* the arguments of a call are a value of Args, or Default for a call with none
TwinArgs == {Default} \cup Args

\* the arguments the second pool is given when the first is given args
OtherArgs(args) == (args + 1) % (MaxVal + 1)

\* the Object variable the next declaration brings into scope, given the Objects o
FreshOf(o) ==
    CHOOSE h \in {g \in Handles : ~o[g].live} : \A g \in Handles : ~o[g].live => h <= g

\* pool.resize(n) on the pool p
callResize(p, n, k) ==
    LET r == resize(p.m_objects, p.m_available, n, k)
    IN  [p EXCEPT !.m_objects = r.m_objects, !.m_available = r.m_available,
                  !.index = -1]

\* Pool<TType>::Object h = pool.acquire(args) on the pool p
callAcquire(p, args, throws, ubCrash) ==
    LET r == acquire(p.m_objects, p.m_available, args, throws, ubCrash)
    IN  [m_objects |-> r.m_objects,
         m_available |-> r.m_available,
         objs |-> IF r.res = "ok"
                  THEN [p.objs EXCEPT
                           ![FreshOf(p.objs)] = ObjectCtor(PtrTo(r.index), THIS, r.index)]
                  ELSE p.objs,
         crashed |-> (r.res = "crash"),
         index |-> IF r.res = "ok" THEN r.index ELSE -1]

\* the Object h bound to the pool p goes out of scope
callDispose(p, h) ==
    [p EXCEPT !.m_available = ObjectDtor(p.objs[h], p.m_available),
              !.m_objects = IF isValid(p.objs[h])
                            THEN returnToPoolObjects(p.m_objects, p.objs[h].m_index)
                            ELSE p.m_objects,
              !.objs = [p.objs EXCEPT ![h] = NoObject],
              !.index = -1]

\* Pool<TType>::Object h(std::move(src)) with src bound to the pool p
callMoveConstruct(p, src) ==
    LET r == ObjectMoveCtor(p.objs[src])
    IN  [p EXCEPT !.objs = [p.objs EXCEPT ![FreshOf(p.objs)] = r.self, ![src] = r.other],
                  !.index = -1]

\* h = std::move(src) with h and src bound to the pool p
callMoveAssign(p, h, src) ==
    LET r == ObjectMoveAssign(p.objs[h], p.objs[src], h = src, p.m_available)
    IN  [p EXCEPT !.objs = IF h = src THEN [p.objs EXCEPT ![h] = r.self]
                           ELSE [p.objs EXCEPT ![h] = r.self, ![src] = r.other],
                  !.m_available = r.m_available,
                  !.m_objects = IF h # src /\ isValid(p.objs[h])
                                THEN returnToPoolObjects(p.m_objects, p.objs[h].m_index)
                                ELSE p.m_objects,
                  !.index = -1]

\* both pools are running: the process of neither was ended
TwinsRunning == \A i \in 1..2 : ~twins[i].crashed

\* first.resize(n); second.resize(n);  with the same outcome k in both, called
\* while no lease is outstanding
TwinResize(n, k) ==
    /\ TwinsRunning
    /\ \A i \in 1..2 : \A h \in Handles : ~isValid(twins[i].objs[h])
    /\ twins' = [i \in 1..2 |-> callResize(twins[i], n, k)]
    /\ UNCHANGED twinRest

\* auto a = first.acquire(args); auto b = second.acquire(OtherArgs(args));  the
\* two constructors have the same outcome; ub1 and ub2 are the outcomes of
\* undefined behaviour in the first and in the second call
TwinAcquire(args, throws, ub1, ub2) ==
    /\ TwinsRunning
    /\ ub1 => acquireUndefined(twins[1].m_objects, twins[1].m_available)
    /\ ub2 => acquireUndefined(twins[2].m_objects, twins[2].m_available)
    /\ LET first == callAcquire(twins[1], args, throws, ub1)
           second == callAcquire(twins[2], OtherArgs(args), throws, ub2)
       IN  /\ \A i \in 1..2 :
                 (~throws /\ Len(twins[i].m_available) > 0) =>
                    \E h \in Handles : ~twins[i].objs[h].live
           /\ twins' = <<first, second>>
    /\ UNCHANGED twinRest

\* the Objects h of the two pools go out of scope
TwinDispose(h) ==
    /\ TwinsRunning
    /\ \A i \in 1..2 : twins[i].objs[h].live
    /\ twins' = [i \in 1..2 |-> callDispose(twins[i], h)]
    /\ UNCHANGED twinRest

\* the Objects src of the two pools are moved into new Objects
TwinMoveConstruct(src) ==
    /\ TwinsRunning
    /\ \A i \in 1..2 : twins[i].objs[src].live
    /\ \A i \in 1..2 : \E h \in Handles : ~twins[i].objs[h].live
    /\ twins' = [i \in 1..2 |-> callMoveConstruct(twins[i], src)]
    /\ UNCHANGED twinRest

\* h = std::move(src) on the Objects of the two pools
TwinMoveAssign(h, src) ==
    /\ TwinsRunning
    /\ \A i \in 1..2 : twins[i].objs[h].live /\ twins[i].objs[src].live
    /\ twins' = [i \in 1..2 |-> callMoveAssign(twins[i], h, src)]
    /\ UNCHANGED twinRest

NextTwins ==
    \/ \E n \in 0..MaxCap : \E k \in (-1)..n : TwinResize(n, k)
    \/ \E args \in TwinArgs, throws \in BOOLEAN, ub1 \in BOOLEAN, ub2 \in BOOLEAN :
          TwinAcquire(args, throws, ub1, ub2)
    \/ \E h \in Handles : TwinDispose(h)
    \/ \E src \in Handles : TwinMoveConstruct(src)
    \/ \E h \in Handles, src \in Handles : TwinMoveAssign(h, src)

SpecTwins == Init /\ [][NextTwins]_vars

(* --------------------- acquire, statement by statement ----------------- *)
\* Callers are threads; thread t keeps its lease in the Object variable t.  pc[t]
\* is the statement of acquire that thread t runs next, acqIndex[t] its local
\* `index`; raced records that a call began while another thread was inside
\* acquire, which the code never prevents (the pool holds no lock).

\* no thread is inside acquire
AllIdle == \A t \in Handles : pc[t] = "idle"

\* another thread is inside acquire
OtherInside(t) == \E u \in Handles \ {t} : pc[u] # "idle"

\* `TType* ptr = m_objects[index]; ptr->~TType();` is undefined: the index is past
\* the end of the vector, or the slot's object is already destroyed
slotUndefined(objects, index) ==
    IF index >= Len(objects) THEN TRUE ELSE At(objects, index) = Dead

\* the threads that can call acquire: outside it and holding no Object
Callers == {t \in Handles : pc[t] = "idle" /\ ~objs[t].live}

\* if (m_available.empty()) throw std::runtime_error(...);
\* the threads are interchangeable, so the one that calls next is the lowest
AcquireEmptyCheck(t) ==
    /\ ~crashed
    /\ t \in Callers
    /\ \A u \in Callers : t <= u
    /\ raced' = (raced \/ OtherInside(t))
    /\ IF Len(m_available) = 0
       THEN /\ lastOp' = [op |-> "acquire", res |-> "PoolExhausted", idx |-> -1, n |-> 0]
            /\ pc' = pc
       ELSE /\ lastOp' = lastOp
            /\ pc' = [pc EXCEPT ![t] = "back"]
    /\ UNCHANGED <<m_objects, m_available, objs, staleLease, crashed, acqIndex, restVars>>

\* size_t index = m_available.back();  on a vector another thread has emptied
\* since the test, back() is undefined: the process is ended (ub = -1) or the read
\* yields whatever index is in that memory (ub >= 0)
AcquireReadBack(t, ub) ==
    /\ ~crashed
    /\ pc[t] = "back"
    /\ IF Len(m_available) = 0
       THEN /\ crashed' = (ub = -1)
            /\ acqIndex' = IF ub = -1 THEN acqIndex ELSE [acqIndex EXCEPT ![t] = ub]
       ELSE /\ ub = -1
            /\ crashed' = crashed
            /\ acqIndex' = [acqIndex EXCEPT ![t] = Back(m_available)]
    /\ pc' = [pc EXCEPT ![t] = "pop"]
    /\ UNCHANGED <<m_objects, m_available, objs, staleLease, lastOp, raced, restVars>>

\* m_available.pop_back();  on a vector another thread has emptied since the test,
\* pop_back() is undefined: the process is ended (ubCrash) or the call goes on
\* with the vector still empty
AcquirePopBack(t, ubCrash) ==
    /\ ~crashed
    /\ pc[t] = "pop"
    /\ IF Len(m_available) = 0
       THEN /\ crashed' = ubCrash
            /\ m_available' = m_available
       ELSE /\ ~ubCrash
            /\ crashed' = crashed
            /\ m_available' = PopBack(m_available)
    /\ pc' = [pc EXCEPT ![t] = "build"]
    /\ UNCHANGED <<m_objects, objs, staleLease, lastOp, acqIndex, raced, restVars>>

\* TType* ptr = m_objects[index]; try { ptr->~TType(); new (ptr) TType(args); }
\* catch (...) { m_available.push_back(index); throw; }
\* return Object(ptr, this, index);
AcquireConstruct(t, args, throws, ubCrash) ==
    /\ ~crashed
    /\ pc[t] = "build"
    /\ ubCrash => slotUndefined(m_objects, acqIndex[t])
    /\ LET index == acqIndex[t]
           inRange == index < Len(m_objects)
           res == IF ubCrash THEN "crash" ELSE IF throws THEN "ctor_threw" ELSE "ok"
       IN  /\ crashed' = ubCrash
           /\ m_objects' = IF ubCrash \/ ~inRange THEN m_objects
                           ELSE IF throws THEN [m_objects EXCEPT ![index + 1] = Dead]
                           ELSE [m_objects EXCEPT ![index + 1] = args]
           /\ m_available' = IF ~ubCrash /\ throws
                             THEN acquireRollback(m_available, index)
                             ELSE m_available
           /\ objs' = IF res = "ok"
                      THEN [objs EXCEPT ![t] = ObjectCtor(PtrTo(index), THIS, index)]
                      ELSE objs
           /\ lastOp' = [op |-> "acquire", res |-> res, idx |-> index, n |-> 0]
    /\ pc' = [pc EXCEPT ![t] = "idle"]
    /\ acqIndex' = [acqIndex EXCEPT ![t] = -1]
    /\ UNCHANGED <<staleLease, raced, restVars>>

\* thread t lets its Object go out of scope, whatever the other threads are doing
ThreadDispose(t) ==
    /\ ~crashed
    /\ pc[t] = "idle"
    /\ objs[t].live
    /\ raced' = (raced \/ OtherInside(t))
    /\ m_available' = ObjectDtor(objs[t], m_available)
    /\ m_objects' = IF isValid(objs[t])
                    THEN returnToPoolObjects(m_objects, objs[t].m_index)
                    ELSE m_objects
    /\ objs' = [objs EXCEPT ![t] = NoObject]
    /\ lastOp' = [op |-> "dispose",
                  res |-> IF isValid(objs[t]) THEN "returned" ELSE "noop",
                  idx |-> IF isValid(objs[t]) THEN objs[t].m_index ELSE -1,
                  n |-> 0]
    /\ UNCHANGED <<staleLease, crashed, pc, acqIndex, restVars>>

\* pool.resize(n) before the threads start using the pool
ResizeQuiet(n, k) ==
    /\ AllIdle
    /\ Leases = {}
    /\ Resize(n, k)

\* threads that call acquire and dispose their handles with no lock around the calls
NextThreads ==
    \/ \E n \in 0..MaxCap : \E k \in (-1)..n : ResizeQuiet(n, k)
    \/ \E t \in Handles : AcquireEmptyCheck(t)
    \/ \E t \in Handles, ub \in (-1)..(MaxCap - 1) : AcquireReadBack(t, ub)
    \/ \E t \in Handles, ubCrash \in BOOLEAN : AcquirePopBack(t, ubCrash)
    \/ \E t \in Handles, args \in Args, throws \in BOOLEAN, ubCrash \in BOOLEAN :
          AcquireConstruct(t, args, throws, ubCrash)
    \/ \E t \in Handles : ThreadDispose(t)

SpecThreads == Init /\ [][NextThreads]_vars

\* The callers share one mutex and hold it around every call: a call begins only
\* while no other thread is inside one.

\* lock; pool.acquire(args) ...: the caller enters acquire holding the mutex
LockedAcquireEnter(t) ==
    /\ ~OtherInside(t)
    /\ AcquireEmptyCheck(t)

\* lock; the Object h goes out of scope; unlock
LockedDispose(h) ==
    /\ AllIdle
    /\ Dispose(h)

\* lock; Pool<TType>::Object h(std::move(src)); unlock
LockedMoveConstruct(src) ==
    /\ AllIdle
    /\ MoveConstruct(src)

\* lock; h = std::move(src); unlock
LockedMoveAssign(h, src) ==
    /\ AllIdle
    /\ MoveAssign(h, src)

\* threads that take the mutex around every call
NextLocked ==
    \/ \E n \in 0..MaxCap : \E k \in (-1)..n : ResizeQuiet(n, k)
    \/ \E t \in Handles : LockedAcquireEnter(t)
    \/ \E t \in Handles, ub \in (-1)..(MaxCap - 1) : AcquireReadBack(t, ub)
    \/ \E t \in Handles, ubCrash \in BOOLEAN : AcquirePopBack(t, ubCrash)
    \/ \E t \in Handles, args \in Args, throws \in BOOLEAN, ubCrash \in BOOLEAN :
          AcquireConstruct(t, args, throws, ubCrash)
    \/ \E h \in Handles : LockedDispose(h)
    \/ \E src \in Handles : LockedMoveConstruct(src)
    \/ \E h \in Handles, src \in Handles : LockedMoveAssign(h, src)

SpecLocked == Init /\ [][NextLocked]_vars

(* --------------------- resize, statement by statement ------------------ *)
\* resizeFrame.at is the statement of resize that runs next; the pool has one
\* caller, which calls resize while it holds no lease.

\* what the steps of resize leave alone
resizeRest == <<objs, pc, acqIndex, raced, names_used, machineVars, singletonVars,
                twins>>

\* std::vector<TType*> oldObjects = std::move(m_objects);
\* std::vector<size_t> oldAvailable = std::move(m_available);
ResizeSave(n) ==
    /\ ~crashed
    /\ resizeFrame.at = "idle"
    /\ Leases = {}
    /\ resizeFrame' = [at |-> "reserve", n |-> n, oldObjects |-> m_objects,
                       oldAvailable |-> m_available, deleted |-> 0, res |-> "ok"]
    /\ m_objects' = <<>>
    /\ m_available' = <<>>
    /\ UNCHANGED <<staleLease, crashed, lastOp, resizeRest>>

\* m_objects.reserve(n); m_available.reserve(n);   throws: std::bad_alloc
ResizeReserve(throws) ==
    /\ resizeFrame.at = "reserve"
    /\ resizeFrame' = IF throws
                      THEN [resizeFrame EXCEPT !.at = "catch", !.res = "bad_alloc"]
                      ELSE [resizeFrame EXCEPT !.at = "loop"]
    /\ UNCHANGED <<m_objects, m_available, staleLease, crashed, lastOp, resizeRest>>

\* one round of the loop: m_objects.push_back(new TType()); m_available.push_back(i);
\* throws: the constructor TType() throws
ResizeConstruct(throws) ==
    /\ resizeFrame.at = "loop"
    /\ Len(m_objects) < resizeFrame.n
    /\ IF throws
       THEN /\ resizeFrame' = [resizeFrame EXCEPT !.at = "catch", !.res = "ctor_threw"]
            /\ UNCHANGED <<m_objects, m_available>>
       ELSE /\ m_objects' = Append(m_objects, Default)
            /\ m_available' = Append(m_available, Len(m_objects))
            /\ UNCHANGED resizeFrame
    /\ UNCHANGED <<staleLease, crashed, lastOp, resizeRest>>

\* a cleanup loop placed before the construction loop has finished
ResizeDelete_BeforeBuilt(ubCrash) ==
    /\ resizeFrame.at = "loop"
    /\ resizeFrame.deleted < Len(resizeFrame.oldObjects)
    /\ ~ubCrash
    /\ resizeFrame' = [resizeFrame EXCEPT !.deleted = @ + 1]
    /\ UNCHANGED <<m_objects, m_available, staleLease, crashed, lastOp, resizeRest>>

\* one round of `for (auto ptr : oldObjects) delete ptr;` after the construction
\* loop has ended.  Deleting an object whose destructor has already run is
\* undefined: the process is ended (ubCrash) or the call goes on
ResizeDelete(ubCrash) ==
    /\ resizeFrame.at \in {"loop", "cleanup"}
    /\ Len(m_objects) = resizeFrame.n
    /\ resizeFrame.deleted < Len(resizeFrame.oldObjects)
    /\ ubCrash => resizeFrame.oldObjects[resizeFrame.deleted + 1] = Dead
    /\ crashed' = ubCrash
    /\ resizeFrame' = IF ubCrash THEN [resizeFrame EXCEPT !.at = "ended"]
                      ELSE [resizeFrame EXCEPT !.at = "cleanup", !.deleted = @ + 1]
    /\ UNCHANGED <<m_objects, m_available, staleLease, lastOp, resizeRest>>

\* the end of the try block: resize returns
ResizeReturn ==
    /\ resizeFrame.at \in {"loop", "cleanup"}
    /\ Len(m_objects) = resizeFrame.n
    /\ resizeFrame.deleted = Len(resizeFrame.oldObjects)
    /\ lastOp' = [op |-> "resize", res |-> "ok", idx |-> -1, n |-> resizeFrame.n]
    /\ staleLease' = (Leases # {})
    /\ resizeFrame' = NoFrame
    /\ UNCHANGED <<m_objects, m_available, crashed, resizeRest>>

\* catch (...) { m_objects = std::move(oldObjects);
\*               m_available = std::move(oldAvailable); throw; }
ResizeCatch ==
    /\ resizeFrame.at = "catch"
    /\ m_objects' = resizeFrame.oldObjects
    /\ m_available' = resizeFrame.oldAvailable
    /\ lastOp' = [op |-> "resize", res |-> resizeFrame.res, idx |-> -1, n |-> 0]
    /\ resizeFrame' = NoFrame
    /\ UNCHANGED <<staleLease, crashed, resizeRest>>

\* pool.acquire(args) between two resize calls
AcquireBetween(args, throws, ubCrash) ==
    /\ resizeFrame.at = "idle"
    /\ Acquire(args, throws, ubCrash)

\* a handle goes out of scope between two resize calls
DisposeBetween(h) ==
    /\ resizeFrame.at = "idle"
    /\ Dispose(h)

\* one caller that resizes an idle pool, acquires and disposes
NextResizeSteps ==
    \/ \E n \in 0..MaxCap : ResizeSave(n)
    \/ \E throws \in BOOLEAN : ResizeReserve(throws)
    \/ \E throws \in BOOLEAN : ResizeConstruct(throws)
    \/ \E ubCrash \in BOOLEAN : ResizeDelete(ubCrash)
    \/ ResizeReturn
    \/ ResizeCatch
    \/ \E args \in Args, throws \in BOOLEAN, ubCrash \in BOOLEAN :
          AcquireBetween(args, throws, ubCrash)
    \/ \E h \in Handles : DisposeBetween(h)

SpecResizeSteps == Init /\ [][NextResizeSteps]_vars

(* ------------------------- leases in a row ---------------------------- *)
\* testObjectReuse: the caller resizes the pool while it holds no lease, then
\* leases up to Rounds times, lease number i with the arguments i, and notes in
\* names_used what it reads through each handle.

\* pool.resize(n) at the start of a run of the test
ResizeRound(n, k) ==
    /\ ~crashed
    /\ Leases = {}
    /\ LET r == resize(m_objects, m_available, n, k)
       IN  /\ m_objects' = r.m_objects
           /\ m_available' = r.m_available
           /\ lastOp' = [op |-> "resize", res |-> r.res, idx |-> -1,
                         n |-> IF r.res = "ok" THEN n ELSE 0]
           /\ names_used' = IF r.res = "ok" THEN <<>> ELSE names_used
    /\ staleLease' = staleLease
    /\ UNCHANGED <<objs, crashed, threadVars, resizeFrame, machineVars, singletonVars,
                   twins>>

\* auto obj = pool.acquire(i, ...); names_used.push_back(obj->getName());
AcquireRound(throws, ubCrash) ==
    /\ ~crashed
    /\ Len(names_used) < Rounds
    /\ ubCrash => acquireUndefined(m_objects, m_available)
    /\ LET args == Len(names_used) + 1
           r == acquire(m_objects, m_available, args, throws, ubCrash)
       IN  /\ r.res = "ok" => Unused # {}
           /\ m_objects' = r.m_objects
           /\ m_available' = r.m_available
           /\ crashed' = (r.res = "crash")
           /\ objs' = IF r.res = "ok"
                      THEN [objs EXCEPT ![Fresh] = ObjectCtor(PtrTo(r.index), THIS, r.index)]
                      ELSE objs
           /\ lastOp' = [op |-> "acquire", res |-> r.res, idx |-> r.index, n |-> 0]
           /\ names_used' =
                 IF r.res = "ok"
                 THEN Append(names_used,
                             [idx |-> r.index, args |-> args,
                              seen |-> IF r.index < Len(r.m_objects)
                                       THEN At(r.m_objects, r.index) ELSE Dead])
                 ELSE names_used
    /\ UNCHANGED <<staleLease, threadVars, resizeFrame, machineVars, singletonVars,
                   twins>>

\* one caller that resizes, leases in a row and disposes
NextReuse ==
    \/ \E n \in 0..MaxCap : \E k \in (-1)..n : ResizeRound(n, k)
    \/ \E throws \in BOOLEAN, ubCrash \in BOOLEAN : AcquireRound(throws, ubCrash)
    \/ \E h \in Handles : Dispose(h)

SpecReuse == Init /\ [][NextReuse]_vars

(* ------------------------ StateMachine<TState> ------------------------- *)
\* what the calls on the state machine leave alone
machineRest == <<poolVars, threadVars, names_used, resizeFrame, singletonVars, twins>>

\* a catch block that rethrows without restoring oldState
transitionTo_NoRestore(current, states, transitions, state, throws, nested) ==
    IF state \notin states
    THEN [m_currentState |-> current, res |-> "no_state"]
    ELSE IF <<current, state>> \notin transitions
    THEN [m_currentState |-> current, res |-> "no_transition"]
    ELSE IF throws
    THEN [m_currentState |-> nested, res |-> "callback_threw"]
    ELSE [m_currentState |-> state, res |-> "ok"]

\* StateMachine::transitionTo(state).  throws: the transition callback throws.
\* nested: the value of m_currentState when the callback ends (the callback may
\* itself have called transitionTo on the machine it captured).
transitionTo(current, states, transitions, state, throws, nested) ==
    IF state \notin states
    THEN [m_currentState |-> current, res |-> "no_state"]
    ELSE IF <<current, state>> \notin transitions
    THEN [m_currentState |-> current, res |-> "no_transition"]
    ELSE LET oldState == current
         IN  IF throws
             THEN [m_currentState |-> oldState, res |-> "callback_threw"]
             ELSE [m_currentState |-> state, res |-> "ok"]

\* an addState that makes every state it is given the current one
addStateCurrent_Always(current, hasState, state) == state

\* StateMachine::addState(state): m_currentState after the call
addStateCurrent(current, hasState, state) ==
    IF ~hasState THEN state ELSE current

\* sm.addState(state)
AddState(state) ==
    /\ m_states' = m_states \cup {state}
    /\ m_currentState' = addStateCurrent(m_currentState, m_hasState, state)
    /\ m_hasState' = TRUE
    /\ smLast' = [op |-> "addState", res |-> "ok", arg |-> state,
                  from |-> NoState, ran |-> NoState]
    /\ UNCHANGED <<m_actions, m_transitions, machineRest>>

\* sm.addTransition(startState, finalState, lambda)
AddTransition(startState, finalState) ==
    /\ IF startState \notin m_states \/ finalState \notin m_states
       THEN /\ smLast' = [op |-> "addTransition", res |-> "no_state", arg |-> NoState,
                          from |-> NoState, ran |-> NoState]
            /\ UNCHANGED m_transitions
       ELSE /\ smLast' = [op |-> "addTransition", res |-> "ok", arg |-> NoState,
                          from |-> NoState, ran |-> NoState]
            /\ m_transitions' = m_transitions \cup {<<startState, finalState>>}
    /\ UNCHANGED <<m_currentState, m_hasState, m_states, m_actions, machineRest>>

\* sm.addAction(state, lambda)
AddAction(state) ==
    /\ IF state \notin m_states
       THEN /\ smLast' = [op |-> "addAction", res |-> "no_state", arg |-> NoState,
                          from |-> NoState, ran |-> NoState]
            /\ UNCHANGED m_actions
       ELSE /\ smLast' = [op |-> "addAction", res |-> "ok", arg |-> NoState,
                          from |-> NoState, ran |-> NoState]
            /\ m_actions' = m_actions \cup {state}
    /\ UNCHANGED <<m_currentState, m_hasState, m_states, m_transitions, machineRest>>

\* sm.transitionTo(state)
TransitionTo(state, throws, nested) ==
    /\ throws => <<m_currentState, state>> \in m_transitions
    /\ nested \in m_states \cup {m_currentState}
    /\ nested # m_currentState => throws
    /\ LET r == transitionTo(m_currentState, m_states, m_transitions, state, throws, nested)
       IN  /\ m_currentState' = r.m_currentState
           /\ smLast' = [op |-> "transitionTo", res |-> r.res, arg |-> state,
                         from |-> m_currentState, ran |-> NoState]
    /\ UNCHANGED <<m_hasState, m_states, m_actions, m_transitions, machineRest>>

\* sm.update().  throws: the action callback throws
Update(throws) ==
    /\ throws => m_currentState \in m_actions
    /\ LET afterFailure == smLast.op = "transitionTo" /\ smLast.res # "ok"
           from == IF afterFailure THEN smLast.from ELSE NoState
       IN  smLast' = IF m_currentState \notin m_actions
                     THEN [op |-> "update", res |-> "no_action", arg |-> NoState,
                           from |-> from, ran |-> NoState]
                     ELSE [op |-> "update",
                           res |-> IF throws THEN "callback_threw" ELSE "ok",
                           arg |-> NoState, from |-> from, ran |-> m_currentState]
    /\ UNCHANGED <<m_currentState, m_hasState, m_states, m_actions, m_transitions,
                   machineRest>>

\* a program that configures and drives one state machine
NextMachine ==
    \/ \E state \in States : AddState(state)
    \/ \E startState \in States, finalState \in States :
          AddTransition(startState, finalState)
    \/ \E state \in States : AddAction(state)
    \/ \E state \in States, throws \in BOOLEAN, nested \in States \cup {NoState} :
          TransitionTo(state, throws, nested)
    \/ \E throws \in BOOLEAN : Update(throws)

SpecMachine == Init /\ [][NextMachine]_vars

(* -------------------------- Singleton<TType> --------------------------- *)
\* what the calls on the singletons leave alone
singletonRest == <<poolVars, threadVars, names_used, resizeFrame, machineVars, twins>>

\* the address of the object `new TType(args)` builds; the arguments are a value
\* of Args, or Default for a call with no argument
ObjectOf(args) == args + 1

\* Singleton<TType>::instance() on the s_instance of the type
instance(inst) ==
    IF inst = NULL
    THEN [res |-> "not_created", ret |-> NULL]
    ELSE [res |-> "ok", ret |-> inst]

\* an instantiate without the test of s_instance
instantiate_Replaces(inst, args, throws) ==
    IF throws
    THEN [s_instance |-> inst, res |-> "ctor_threw"]
    ELSE [s_instance |-> ObjectOf(args), res |-> "ok"]

\* Singleton<TType>::instantiate(args) on the s_instance of the type.
\* throws: the constructor TType(args) throws, so reset is never called
instantiate(inst, args, throws) ==
    IF inst # NULL
    THEN [s_instance |-> inst, res |-> "already_created"]
    ELSE IF throws
    THEN [s_instance |-> inst, res |-> "ctor_threw"]
    ELSE [s_instance |-> ObjectOf(args), res |-> "ok"]

\* Singleton<T>::instance()
Instance(type) ==
    /\ LET r == instance(s_instance[type])
       IN  sgLast' = [op |-> "instance", type |-> type, res |-> r.res, ret |-> r.ret]
    /\ UNCHANGED <<s_instance, singletonRest>>

\* Singleton<T>::instantiate(args)
Instantiate(type, args, throws) ==
    /\ LET r == instantiate(s_instance[type], args, throws)
       IN  /\ s_instance' = [s_instance EXCEPT ![type] = r.s_instance]
           /\ sgLast' = [op |-> "instantiate", type |-> type, res |-> r.res,
                         ret |-> NULL]
    /\ UNCHANGED singletonRest

\* a program that uses Singleton for several types
NextSingleton ==
    \/ \E type \in Types : Instance(type)
    \/ \E type \in Types, args \in {Default} \cup Args, throws \in BOOLEAN :
          Instantiate(type, args, throws)

SpecSingleton == Init /\ [][NextSingleton]_vars

(* ------------------------- reading the state -------------------------- *)
\* the set of indices on the free-index stack
FreeSet == {m_available[j] : j \in 1..Len(m_available)}

\* the set of indices bound to live non-empty handles
LeasedSet == {objs[h].m_index : h \in Leases}

\* how many live non-empty handles of o are bound to index i
CountAt(o, i) == Cardinality({h \in Handles : o[h].live /\ isValid(o[h]) /\ o[h].m_index = i})

\* how often index i occurs on the stack v
Occurrences(v, i) == Cardinality({j \in 1..Len(v) : v[j] = i})

\* every index a handle or the stack can hold
Indices == 0..(MaxCap - 1)

(* ------------------------------- C1 ----------------------------------- *)
\* C1: with resize called only while no lease is outstanding, every slot index is
\* bound to at most one live, non-empty handle, whatever acquires, disposals, move
\* constructions and move assignments have run.
C1_OneOwnerPerSlot == \A i \in Indices : CountAt(objs, i) <= 1

\* a move construction has just run: the source is alive but empty and still
\* carries the index that the one owner is bound to
C1_Witness ==
    /\ lastOp.op = "move_ctor"
    /\ \E h \in Leases : \E g \in Handles :
          /\ objs[g].live /\ ~isValid(objs[g])
          /\ objs[g].m_index = objs[h].m_index

(* ------------------------------- C2 ----------------------------------- *)
\* C2: with resize called only while no lease is outstanding, after every call
\* that returns (acquire that succeeds or throws, disposal, move) the free-index
\* stack holds no index twice, shares no index with the leased set, and the two
\* sets together are exactly 0..size()-1.
C2_Partition ==
    ~crashed =>
        /\ \A i \in FreeSet : Occurrences(m_available, i) = 1
        /\ FreeSet \cap LeasedSet = {}
        /\ FreeSet \cup LeasedSet = 0..(size - 1)

\* an acquire has just thrown from the constructor while one slot is leased and
\* another is free
C2_Witness ==
    /\ lastOp.op = "acquire" /\ lastOp.res = "ctor_threw"
    /\ Leases # {}
    /\ m_available # <<>>

(* ------------------------------- C3 ----------------------------------- *)
\* C3: after every call that returns, available() + inUse() = size() and inUse()
\* is the number of live non-empty handles.
C3_CountInvariant ==
    ~crashed =>
        /\ available + inUse = size
        /\ inUse = Cardinality(Leases)

\* resize(3) and one acquire: 2 available, 1 in use
C3_Witness ==
    /\ lastOp.op = "acquire" /\ lastOp.res = "ok"
    /\ size = 3 /\ available = 2 /\ inUse = 1

(* ------------------------------- C4 ----------------------------------- *)
\* C4: whatever the state before it (leases outstanding, a stack out of order or
\* holding stale indices, destroyed slots), a resize(n) that
\* succeeds leaves size() = n, available() = n, inUse() = 0, n default-constructed
\* slots and the free-index stack <<0, 1, ..., n-1>>, n-1 on top.
C4_ResizeEstablishes ==
    (lastOp.op = "resize" /\ lastOp.res = "ok") =>
        /\ size = lastOp.n /\ available = lastOp.n /\ inUse = 0
        /\ m_objects = [i \in 1..lastOp.n |-> Default]
        /\ m_available = [i \in 1..lastOp.n |-> i - 1]
        /\ lastOp.n > 0 => Back(m_available) = lastOp.n - 1

\* a resize to the largest capacity has succeeded while a lease was outstanding
C4_Witness ==
    /\ lastOp.op = "resize" /\ lastOp.res = "ok" /\ lastOp.n = MaxCap
    /\ staleLease

(* ------------------------------- C5 ----------------------------------- *)
\* C5: an acquire called with the free-index stack empty throws the pool-exhausted
\* error, creates no handle and leaves the stack, the slot store and every slot's
\* contents as they were.
C5_ExhaustedAcquireChangesNothing ==
    [][(lastOp'.op = "acquire" /\ Len(m_available) = 0) =>
          /\ lastOp'.res = "PoolExhausted"
          /\ UNCHANGED <<m_objects, m_available, objs, crashed>>]_vars

\* an acquire has been refused with every slot of a non-empty pool leased
C5_Witness ==
    /\ lastOp.op = "acquire" /\ lastOp.res = "PoolExhausted"
    /\ size = 1 /\ Cardinality(Leases) = 1

(* ------------------------------- C6 ----------------------------------- *)
\* C6: when the constructor throws inside acquire, no handle is produced, the
\* free-index stack is exactly as before the call with the popped index on top,
\* available() is unchanged, and a following acquire whose constructor does not
\* throw succeeds.
C6_RollbackThenAcquireSucceeds ==
    [][/\ (lastOp'.op = "acquire" /\ lastOp'.res = "ctor_threw") =>
             /\ m_available' = m_available
             /\ Back(m_available') = lastOp'.idx
             /\ objs' = objs
       /\ \A args \in Args, ubCrash \in BOOLEAN :
             (/\ lastOp.op = "acquire" /\ lastOp.res = "ctor_threw"
              /\ Acquire(args, FALSE, ubCrash))
             => lastOp'.res = "ok"]_vars

(* ------------------------------- C7 ----------------------------------- *)
\* C7: a resize that fails (the reserve or the k-th default construction throws)
\* reports the error and leaves size(), available(), the order of the free-index
\* stack, the slots' contents and the handles as before the call.
C7_FailedResizeChangesNothing ==
    [][(lastOp'.op = "resize" /\ lastOp'.res # "ok") =>
          /\ lastOp'.res \in {"bad_alloc", "ctor_threw"}
          /\ UNCHANGED <<m_objects, m_available, objs, crashed>>]_vars

\* a resize has failed in a default constructor on a pool whose stack is out of
\* its initial order and whose slots are no longer default-constructed
C7_Witness ==
    /\ lastOp.op = "resize" /\ lastOp.res = "ctor_threw"
    /\ m_available = <<1, 0>>
    /\ \A i \in 1..Len(m_objects) : m_objects[i] # Default

(* ------------------------------- C8 ----------------------------------- *)
\* C8: disposing a non-empty handle pushes its index on top of the free-index
\* stack and available() grows by exactly 1; over the life of a lease, moves
\* included, the index is pushed back exactly when the binding ends: a handle
\* operation pushes index i once if it ends a binding to i and pushes nothing
\* otherwise, and no handle operation creates a binding.
C8_ReturnedExactlyOnce ==
    [][(lastOp'.op \in {"dispose", "move_ctor", "move_assign"}) =>
          LET ended == {i \in Indices : CountAt(objs', i) < CountAt(objs, i)}
          IN  /\ \A i \in Indices : CountAt(objs', i) <= CountAt(objs, i)
              /\ IF ended = {}
                 THEN m_available' = m_available
                 ELSE \E i \in ended :
                         /\ ended = {i}
                         /\ CountAt(objs', i) = CountAt(objs, i) - 1
                         /\ m_available' = Append(m_available, i)
              /\ (lastOp'.op = "dispose" /\ lastOp'.res = "returned") =>
                    /\ ended = {lastOp'.idx}
                    /\ Len(m_available') = Len(m_available) + 1
                    /\ Back(m_available') = lastOp'.idx]_vars

\* the handle a lease was moved into has just been disposed while the moved-from
\* handle is still alive: the index is on the stack once
C8_Witness ==
    /\ lastOp.op = "dispose" /\ lastOp.res = "returned"
    /\ \E g \in Handles :
          /\ objs[g].live /\ ~isValid(objs[g])
          /\ objs[g].m_index = lastOp.idx
    /\ Occurrences(m_available, lastOp.idx) = 1

(* ------------------------------- C9 ----------------------------------- *)
\* C9: the free-index stack is strictly last-in-first-out: a successful acquire
\* binds the index on top and pops it, every returned or rolled-back index goes on
\* top, and so an acquire that follows a disposal, a releasing move assignment or
\* a rollback binds the index that call put back.
C9_LifoReuse ==
    [][/\ (lastOp'.op = "acquire" /\ lastOp'.res = "ok") =>
             /\ lastOp'.idx = Back(m_available)
             /\ m_available' = PopBack(m_available)
       /\ (lastOp'.op \in {"dispose", "move_assign"} /\ lastOp'.idx # -1) =>
             m_available' = Append(m_available, lastOp'.idx)
       /\ (lastOp'.op = "acquire" /\ lastOp'.res = "ctor_threw") =>
             /\ m_available' = m_available
             /\ Back(m_available') = lastOp'.idx
       /\ (/\ lastOp'.op = "acquire" /\ lastOp'.res = "ok"
           /\ lastOp.op \in {"dispose", "move_assign", "acquire"}
           /\ lastOp.res \in {"returned", "ok", "ctor_threw"}
           /\ lastOp.op = "acquire" => lastOp.res = "ctor_threw"
           /\ lastOp.idx # -1)
          => lastOp'.idx = lastOp.idx]_vars

\* capacity 3 with slot 1 leased: slot 2, returned after slot 1 was taken, has been
\* bound again ahead of slot 0
C9_Witness ==
    /\ lastOp.op = "acquire" /\ lastOp.res = "ok" /\ lastOp.idx = 2
    /\ size = 3
    /\ m_available = <<0>>

(* ------------------------------- C10 ---------------------------------- *)
\* C10: a pool of capacity N grants exactly N simultaneous leases: the number of
\* leases never exceeds size() and equals it exactly when nothing is available;
\* an acquire whose constructor does not throw succeeds if and only if
\* available() > 0 and otherwise fails with pool-exhausted; after a lease is
\* disposed something is available again.
C10_ExactlyNLeases ==
    [][/\ ~crashed' =>
             /\ Cardinality(Leases') <= Len(m_objects')
             /\ (Cardinality(Leases') = Len(m_objects')) <=> (Len(m_available') = 0)
       /\ \A args \in Args, ubCrash \in BOOLEAN :
             (Acquire(args, FALSE, ubCrash) /\ ~crashed') =>
                /\ (lastOp'.res = "ok") <=> (Len(m_available) > 0)
                /\ (lastOp'.res # "ok") => (lastOp'.res = "PoolExhausted")
       /\ (lastOp'.op = "dispose" /\ lastOp'.res = "returned") =>
             Len(m_available') > 0]_vars

\* the N-th simultaneous lease of a pool of capacity N has just been granted
C10_Witness ==
    /\ lastOp.op = "acquire" /\ lastOp.res = "ok"
    /\ size = MaxHandles
    /\ Cardinality(Leases) = size
    /\ available = 0

(* ------------------------------- C11 ---------------------------------- *)
\* C11: moving a non-empty handle into a new handle (move construction) or into an
\* empty one (move assignment) leaves the source alive but invalid and the target
\* valid with the source's pointer, pool and index; the free-index stack, the slot
\* store, available(), inUse() and the number of leases are unchanged.
C11_MoveTransfer ==
    [][/\ \A src \in Handles :
             (MoveConstruct(src) /\ isValid(objs[src])) =>
                /\ objs'[src].live /\ ~isValid(objs'[src])
                /\ isValid(objs'[Fresh])
                /\ objs'[Fresh].m_ptr = objs[src].m_ptr
                /\ objs'[Fresh].m_pool = objs[src].m_pool
                /\ objs'[Fresh].m_index = objs[src].m_index
                /\ m_available' = m_available
                /\ m_objects' = m_objects
                /\ Cardinality(Leases') = Cardinality(Leases)
       /\ \A h \in Handles, src \in Handles :
             (/\ MoveAssign(h, src)
              /\ h # src /\ ~isValid(objs[h]) /\ isValid(objs[src])) =>
                /\ objs'[src].live /\ ~isValid(objs'[src])
                /\ isValid(objs'[h])
                /\ objs'[h].m_ptr = objs[src].m_ptr
                /\ objs'[h].m_pool = objs[src].m_pool
                /\ objs'[h].m_index = objs[src].m_index
                /\ m_available' = m_available
                /\ m_objects' = m_objects
                /\ Cardinality(Leases') = Cardinality(Leases)]_vars

\* a lease has just been move-assigned into an empty handle: the target owns it and
\* the source, still alive, is empty and carries the same index
C11_Witness ==
    /\ lastOp.op = "move_assign" /\ lastOp.res = "ok" /\ lastOp.idx = -1
    /\ \E h \in Leases : \E g \in Handles :
          /\ g # h
          /\ objs[g].live /\ ~isValid(objs[g])
          /\ objs[g].m_index = objs[h].m_index

(* ------------------------------- C12 ---------------------------------- *)
\* C12: move-assigning a non-empty handle onto another non-empty handle pushes the
\* target's old index on the free-index stack and gives the target the source's
\* binding: the target is valid and bound to the source's index, the source is
\* invalid, inUse() drops by exactly 1 and every slot still in use has its owner.
C12_MoveAssignReleasesTarget ==
    [][\A h \in Handles, src \in Handles :
          (/\ MoveAssign(h, src)
           /\ h # src /\ isValid(objs[h]) /\ isValid(objs[src])) =>
             /\ isValid(objs'[h])
             /\ objs'[h].m_ptr = objs[src].m_ptr
             /\ objs'[h].m_pool = objs[src].m_pool
             /\ objs'[h].m_index = objs[src].m_index
             /\ objs'[src].live /\ ~isValid(objs'[src])
             /\ m_available' = Append(m_available, objs[h].m_index)
             /\ m_objects' = m_objects
             /\ Len(m_objects') - Len(m_available') = inUse - 1
             /\ Cardinality(Leases') = Cardinality(Leases) - 1
             /\ Len(m_objects') - Len(m_available') = Cardinality(Leases')]_vars

\* a move assignment has just released the target's index, which is on top of the
\* stack, and the target now owns another slot
C12_Witness ==
    /\ lastOp.op = "move_assign" /\ lastOp.res = "ok" /\ lastOp.idx # -1
    /\ Back(m_available) = lastOp.idx
    /\ \E h \in Leases : objs[h].m_index # lastOp.idx

(* ------------------------------- C13 ---------------------------------- *)
\* C13: disposing an empty (moved-from) handle pushes nothing: the free-index
\* stack, the slot store, available(), inUse() and every other handle are as
\* before, and an index that a live handle still owns is not on the stack, so it
\* is returned only by that handle.
C13_EmptyDisposeIsNoOp ==
    [][\A h \in Handles :
          (Dispose(h) /\ ~isValid(objs[h])) =>
             /\ m_available' = m_available
             /\ m_objects' = m_objects
             /\ Leases' = Leases
             /\ \A g \in Handles \ {h} : objs'[g] = objs[g]
             /\ \A i \in Indices :
                   CountAt(objs', i) >= 1 => Occurrences(m_available', i) = 0]_vars

\* a moved-from handle has just been disposed while the handle it was moved into
\* still owns the slot, which is not on the stack
C13_Witness ==
    /\ lastOp.op = "dispose" /\ lastOp.res = "noop"
    /\ Leases # {}
    /\ \A h \in Leases : Occurrences(m_available, objs[h].m_index) = 0

(* ------------------------------- C14 ---------------------------------- *)
\* C14: disposing a handle only pushes its index: the slot store and the object of
\* every slot are as before, so the returned slot keeps the state of its last
\* lease; the object of a free slot changes only in the acquire that pops that
\* index (or in a resize, which replaces every slot).
C14_DeferredDestruction ==
    [][/\ \A h \in Handles :
             (Dispose(h) /\ isValid(objs[h])) =>
                /\ m_objects' = m_objects
                /\ m_available' = Append(m_available, objs[h].m_index)
       /\ \A i \in Indices :
             (/\ Occurrences(m_available, i) >= 1
              /\ i < Len(m_objects) /\ i < Len(m_objects')
              /\ At(m_objects', i) # At(m_objects, i)) =>
                \/ lastOp'.op = "acquire" /\ lastOp'.idx = i /\ Back(m_available) = i
                \/ lastOp'.op = "resize" /\ lastOp'.res = "ok"]_vars

\* a handle has just been disposed and its slot, on top of the free-index stack,
\* still holds the object its lease constructed
C14_Witness ==
    /\ lastOp.op = "dispose" /\ lastOp.res = "returned"
    /\ Back(m_available) = lastOp.idx
    /\ At(m_objects, lastOp.idx) \in Args

(* ------------------------------- C15 ---------------------------------- *)
\* C15: after every call that returns, size() is the capacity (the n of the resize
\* that built the slots, and the number of leased plus free slots), available() is
\* the length of the free-index stack, inUse() = size() - available(), isEmpty()
\* holds iff available() = 0 and isFull() holds iff inUse() = 0; with every slot
\* leased isEmpty() is true and isFull() false, and a pool of capacity 0 is both
\* empty and full.
C15_Introspection ==
    ~crashed =>
       /\ size = Cardinality(LeasedSet \cup FreeSet)
       /\ (lastOp.op = "resize" /\ lastOp.res = "ok") => size = lastOp.n
       /\ available = Len(m_available)
       /\ available = Cardinality(FreeSet)
       /\ inUse = size - available
       /\ inUse = Cardinality(Leases)
       /\ isEmpty <=> (available = 0)
       /\ isFull <=> (inUse = 0)
       /\ (size > 0 /\ Cardinality(Leases) = size) => (isEmpty /\ ~isFull)
       /\ size = 0 => (isEmpty /\ isFull)

\* a pool with at least one slot and every slot leased: empty and not full
C15_Witness ==
    /\ ~crashed
    /\ size > 0
    /\ Cardinality(Leases) = size
    /\ isEmpty /\ ~isFull

(* ------------------------------- C16 ---------------------------------- *)
\* C16: an acquire that fails, by exhaustion or by a throwing constructor, leaves
\* the free-index stack, the object of every slot and every handle exactly as they
\* were before the call.
C16_FailedAcquireChangesNothing ==
    [][(/\ lastOp'.op = "acquire"
        /\ lastOp'.res \in {"PoolExhausted", "ctor_threw"}) =>
          /\ m_available' = m_available
          /\ m_objects' = m_objects
          /\ objs' = objs]_vars

(* ------------------------------- C17 ---------------------------------- *)
\* C17: when resize(n) has succeeded while a handle acquired before it is still
\* live, and that handle is disposed next, the pool reports size() = n,
\* available() = n and inUse() = 0.
C17_ResizeWithLeaseThenDispose ==
    [][\A h \in Handles :
          (/\ lastOp.op = "resize" /\ lastOp.res = "ok"
           /\ staleLease
           /\ isValid(objs[h])
           /\ Dispose(h)) =>
             /\ Len(m_objects') = lastOp.n
             /\ Len(m_available') = lastOp.n
             /\ Len(m_objects') - Len(m_available') = 0]_vars

(* ------------------------------- C18 ---------------------------------- *)
\* C18: with no lock around the calls, a state is reachable, once the statements
\* of two acquires or of an acquire and a disposal have interleaved, in which two
\* live handles are bound to the same slot or the free-index stack is corrupted
\* (an index lost, duplicated, or free and leased at once); while no call has
\* overlapped another, one owner per slot and the free/leased partition hold.
C18_CorruptionOnlyByInterleaving ==
    (AllIdle /\ ~crashed /\ ~raced) =>
       /\ \A i \in Indices : CountAt(objs, i) <= 1
       /\ \A i \in Indices :
             i < Len(m_objects) => CountAt(objs, i) + Occurrences(m_available, i) = 1
       /\ \A i \in Indices :
             i >= Len(m_objects) => CountAt(objs, i) + Occurrences(m_available, i) = 0

\* two threads have returned from overlapping acquires, each with a live handle,
\* and both handles are bound to the same slot while another slot is neither free
\* nor leased
C18_Witness ==
    /\ AllIdle /\ ~crashed /\ raced
    /\ \E i \in Indices : CountAt(objs, i) = 2
    /\ \E j \in Indices :
          j < Len(m_objects) /\ CountAt(objs, j) + Occurrences(m_available, j) = 0

(* ------------------------------- C19 ---------------------------------- *)
\* C19: when every acquire, disposal and move runs under one mutex, then whenever
\* the mutex is free, whatever order the callers' operations ran in, no slot has
\* two owners, every slot is either free once or leased once, no call has
\* overlapped another, and available() + inUse() = size() with inUse() the number
\* of leases.
C19_LockedPreservesInvariants ==
    (AllIdle /\ ~crashed) =>
       /\ ~raced
       /\ \A i \in Indices : CountAt(objs, i) <= 1
       /\ \A i \in Indices :
             CountAt(objs, i) + Occurrences(m_available, i)
                = (IF i < Len(m_objects) THEN 1 ELSE 0)
       /\ available + inUse = size
       /\ inUse = Cardinality(Leases)

\* two callers have each acquired under the mutex: two leases on different slots,
\* a free slot left, and the mutex free
C19_Witness ==
    /\ AllIdle /\ ~crashed /\ ~raced
    /\ lastOp.op = "acquire" /\ lastOp.res = "ok"
    /\ Cardinality(Leases) = 2
    /\ Cardinality(LeasedSet) = 2
    /\ Len(m_available) >= 1

(* ------------------------------- C20 ---------------------------------- *)
\* C20: no operation waits.  In every state of a running program each call that
\* can be written can take its step at once: a resize, an acquire (which on an
\* exhausted pool fails with the error in that same step, leaving the stack as it
\* is, instead of waiting for a release), the disposal of any live handle, which
\* always succeeds, and any move between live handles.
C20_NoOperationBlocks ==
    ~crashed =>
       /\ \A n \in 0..MaxCap : \A k \in (-1)..n :
             Leases = {} => ENABLED ResizeIdle(n, k)
       /\ \A args \in Args :
             /\ ENABLED Acquire(args, TRUE, FALSE)
             /\ Unused # {} => ENABLED Acquire(args, FALSE, FALSE)
             /\ Len(m_available) = 0 =>
                   ENABLED (/\ Acquire(args, FALSE, FALSE)
                            /\ lastOp'.res = "PoolExhausted"
                            /\ m_available' = m_available
                            /\ objs' = objs)
       /\ \A h \in Handles :
             objs[h].live =>
                ENABLED (/\ Dispose(h)
                         /\ ~objs'[h].live
                         /\ lastOp'.res \in {"returned", "noop"})
       /\ \A src \in Handles :
             (objs[src].live /\ Unused # {}) => ENABLED MoveConstruct(src)
       /\ \A h \in Handles, src \in Handles :
             (objs[h].live /\ objs[src].live) => ENABLED MoveAssign(h, src)

\* an acquire has just failed on a pool whose two slots are both leased, and both
\* handles can still be disposed
C20_Witness ==
    /\ ~crashed
    /\ lastOp.op = "acquire" /\ lastOp.res = "PoolExhausted"
    /\ size = 2
    /\ Cardinality(Leases) = 2
    /\ isEmpty

(* ------------------------------- C22 ---------------------------------- *)
\* C22: isValid() is true exactly for a handle that owns a binding (its pointer is
\* the slot of its index in this pool and the index is off the free-index stack);
\* the handle a successful acquire returns is valid, a handle moved from becomes
\* invalid, and no other step (an acquire, a failed acquire, the disposal of
\* another handle, a resize of an idle pool) changes the validity or the index of
\* a handle that stays alive.
C22_ValidIffOwnsBinding ==
    [][/\ \A h \in Handles :
             (objs'[h].live /\ isValid(objs'[h])) =>
                /\ objs'[h].m_ptr = PtrTo(objs'[h].m_index)
                /\ objs'[h].m_pool = THIS
                /\ crashed' \/ Occurrences(m_available', objs'[h].m_index) = 0
       /\ (lastOp'.op = "acquire" /\ lastOp'.res = "ok") =>
             /\ ~objs[Fresh].live
             /\ objs'[Fresh].live /\ isValid(objs'[Fresh])
             /\ objs'[Fresh].m_index = lastOp'.idx
       /\ \A src \in Handles :
             (\/ lastOp'.op = "move_ctor" /\ MoveConstruct(src)
              \/ /\ lastOp'.op = "move_assign"
                 /\ \E h \in Handles \ {src} : MoveAssign(h, src)) =>
                ~isValid(objs'[src])
       /\ \A h \in Handles :
             (/\ objs[h].live /\ objs'[h].live
              /\ \/ isValid(objs'[h]) # isValid(objs[h])
                 \/ objs'[h].m_index # objs[h].m_index) =>
                /\ lastOp'.op \in {"move_ctor", "move_assign"}
                /\ lastOp'.res = "ok"]_vars

\* a handle was moved from and the handle that took its binding has just been
\* disposed: the moved-from handle is still alive and still invalid
C22_Witness ==
    /\ lastOp.op = "dispose" /\ lastOp.res = "returned"
    /\ \E g \in Handles :
          /\ objs[g].live /\ ~isValid(objs[g])
          /\ objs[g].m_index = lastOp.idx

(* ------------------------------- C26 ---------------------------------- *)
\* C26: slot ownership changes on no other path.  Apart from a successful resize,
\* which seeds a new stack, an index leaves the free-index stack only as the top
\* index an acquire pops, and enters it only, once, by the disposal or the
\* move-assign overwrite of the one non-empty handle bound to it, which then no
\* longer owns it; the rollback of a throwing acquire puts back the index that
\* same acquire popped; a failed acquire on an empty stack, a move construction, a
\* move into an empty handle, a self-assignment and the disposal of an empty handle
\* neither push nor pop.
C26_OwnershipPaths ==
    [][\/ lastOp'.op = "resize" /\ lastOp'.res = "ok"
       \/ /\ \A i \in Indices :
                Occurrences(m_available', i) < Occurrences(m_available, i) =>
                   /\ lastOp'.op = "acquire" /\ lastOp'.res \in {"ok", "crash"}
                   /\ lastOp'.idx = i
                   /\ Back(m_available) = i
                   /\ m_available' = PopBack(m_available)
          /\ \A i \in Indices :
                Occurrences(m_available', i) > Occurrences(m_available, i) =>
                   /\ \/ lastOp'.op = "dispose" /\ lastOp'.res = "returned"
                      \/ lastOp'.op = "move_assign" /\ lastOp'.res = "ok"
                   /\ lastOp'.idx = i
                   /\ m_available' = Append(m_available, i)
                   /\ CountAt(objs, i) = 1
                   /\ CountAt(objs', i) = 0
          /\ (lastOp'.op = "acquire" /\ lastOp'.res \in {"ctor_threw", "PoolExhausted"}) =>
                m_available' = m_available
          /\ (\/ lastOp'.op = "move_ctor"
              \/ lastOp'.op = "move_assign" /\ lastOp'.idx = -1
              \/ lastOp'.op = "dispose" /\ lastOp'.res = "noop") =>
                m_available' = m_available]_vars

\* an acquire has just thrown while a lease is outstanding: the index it popped is
\* back on top of the stack and the leased index is not on it
C26_Witness ==
    /\ lastOp.op = "acquire" /\ lastOp.res = "ctor_threw"
    /\ Back(m_available) = lastOp.idx
    /\ \E h \in Leases :
          /\ objs[h].m_index # lastOp.idx
          /\ Occurrences(m_available, objs[h].m_index) = 0

(* ------------------------------- C27 ---------------------------------- *)
\* C27: while a resize(n) runs, no object of the old slot store has been deleted
\* until the new store holds all n objects and the new free-index stack all n
\* indices; once the call is in the catch block no old object has been deleted,
\* and when the call has returned the pool is what resize computes: the new
\* store after a success, the old vectors after a failure.
C27_OldDestroyedAfterNewBuilt ==
    /\ resizeFrame.deleted > 0 =>
          /\ resizeFrame.at \in {"cleanup", "ended"}
          /\ m_objects = ResizeBuiltObjects(resizeFrame.n, resizeFrame.n)
          /\ m_available = ResizeBuiltAvailable(resizeFrame.n, resizeFrame.n)
          /\ Len(m_objects) = resizeFrame.n
    /\ resizeFrame.at \in {"reserve", "loop", "catch"} => resizeFrame.deleted = 0
    /\ resizeFrame.at = "catch" =>
          LET k == IF resizeFrame.res = "bad_alloc" THEN -1 ELSE Len(m_objects)
              r == resize(resizeFrame.oldObjects, resizeFrame.oldAvailable,
                          resizeFrame.n, k)
          IN  /\ r.res = resizeFrame.res
              /\ r.m_objects = resizeFrame.oldObjects
              /\ r.m_available = resizeFrame.oldAvailable
    /\ (resizeFrame.at = "idle" /\ lastOp.op = "resize" /\ lastOp.res = "ok") =>
          /\ m_objects = resize(<<>>, <<>>, lastOp.n, lastOp.n).m_objects
          /\ m_available = resize(<<>>, <<>>, lastOp.n, lastOp.n).m_available

\* a resize of a pool of at least two slots, one of them used by an earlier lease,
\* has built its whole new store of at least one slot and has deleted the first
\* old object but not yet the last
C27_Witness ==
    /\ resizeFrame.at = "cleanup"
    /\ resizeFrame.n >= 1
    /\ resizeFrame.deleted >= 1
    /\ resizeFrame.deleted < Len(resizeFrame.oldObjects)
    /\ \E j \in 1..Len(resizeFrame.oldObjects) : resizeFrame.oldObjects[j] \in Args

(* ------------------------------- C21 ---------------------------------- *)
\* C21: what a caller reads through the handle of a successful acquire is the
\* object built from the arguments of that call, whatever the slot held before (a
\* default-built object, the object of an earlier lease, or a destroyed one);
\* leases of one slot made with different arguments show different values.
C21_ReconstructedFromArguments ==
    /\ \A j \in 1..Len(names_used) : names_used[j].seen = names_used[j].args
    /\ \A j \in 1..Len(names_used), l \in 1..Len(names_used) :
          (names_used[j].idx = names_used[l].idx
              /\ names_used[j].args # names_used[l].args) =>
             names_used[j].seen # names_used[l].seen
    /\ (~crashed /\ lastOp.op = "acquire" /\ lastOp.res = "ok") =>
          At(m_objects, lastOp.idx) = names_used[Len(names_used)].args

\* three leases in a row of the same slot, with three different arguments, have
\* shown three different values
C21_Witness ==
    /\ Len(names_used) = Rounds
    /\ \A j \in 1..Rounds : names_used[j].idx = names_used[1].idx
    /\ \A j \in 1..Rounds, l \in 1..Rounds :
          j # l => names_used[j].seen # names_used[l].seen

(* ------------------------------- C28 ---------------------------------- *)
\* C28: when k acquires have succeeded since resize(n) and no handle has been
\* disposed since (as many leases are outstanding as acquires have succeeded),
\* they have bound the indices n-1, n-2, ..., n-k in that order and the free-index
\* stack is 0, 1, ..., n-k-1 from bottom to top.
C28_DescendingAfterResize ==
    (~crashed /\ Cardinality(Leases) = Len(names_used)) =>
       /\ Len(names_used) <= size
       /\ \A j \in 1..Len(names_used) : names_used[j].idx = size - j
       /\ m_available = [i \in 1..(size - Len(names_used)) |-> i - 1]

\* two acquires in a row after a resize to three slots: the first bound 2, the
\* second 1, and 0 is left on the stack
C28_Witness ==
    /\ ~crashed
    /\ size = MaxCap
    /\ Len(names_used) = 2
    /\ Cardinality(Leases) = 2
    /\ names_used[1].idx = size - 1
    /\ names_used[2].idx = size - 2
    /\ Len(m_available) = size - 2

(* ------------------------------- C29 ---------------------------------- *)
\* C29: while a slot is leased, no call on the pool or on a handle changes its
\* object: in every step that starts and ends with the slot owned by a non-empty
\* handle (an acquire of another slot, a failed acquire, the disposal or a move
\* of another handle, a move of the owning handle) the slot's content is as it
\* was.
C29_LeasedSlotUntouched ==
    [][\A i \in Indices :
          (/\ i < Len(m_objects) /\ i < Len(m_objects')
           /\ CountAt(objs, i) >= 1
           /\ CountAt(objs', i) >= 1) =>
             At(m_objects', i) = At(m_objects, i)]_vars

\* a second acquire has just succeeded and the slot of the older lease still holds
\* the object that lease constructed
C29_Witness ==
    /\ lastOp.op = "acquire" /\ lastOp.res = "ok"
    /\ \E h \in Leases :
          /\ objs[h].m_index # lastOp.idx
          /\ At(m_objects, objs[h].m_index) \in Args

(* ------------------------------- C30 ---------------------------------- *)
\* C30: only resize changes the slot store.  Every other call (an acquire that
\* succeeds or fails, a disposal, a move) and a resize that fails leave size()
\* unchanged and every slot at its index and storage: a handle still points at
\* the slot of its index, and the one object that may differ is the one in the
\* slot the acquire popped.
C30_OnlyResizeChangesStore ==
    [][(lastOp'.op # "resize" \/ lastOp'.res # "ok") =>
          /\ Len(m_objects') = Len(m_objects)
          /\ \A h \in Handles :
                (objs'[h].live /\ isValid(objs'[h])) =>
                   /\ objs'[h].m_ptr = PtrTo(objs'[h].m_index)
                   /\ objs'[h].m_index < Len(m_objects')
          /\ \A i \in Indices :
                (i < Len(m_objects) /\ At(m_objects', i) # At(m_objects, i)) =>
                   lastOp'.op = "acquire" /\ lastOp'.idx = i
          /\ lastOp'.op = "resize" => m_objects' = m_objects]_vars

\* an acquire has just succeeded on a pool of the largest capacity: its handle
\* points at the popped slot and another slot still holds its default-built object
C30_Witness ==
    /\ lastOp.op = "acquire" /\ lastOp.res = "ok"
    /\ size = MaxCap
    /\ \E h \in Leases : objs[h].m_ptr = PtrTo(lastOp.idx)
    /\ \E i \in Indices : i # lastOp.idx /\ At(m_objects, i) = Default

C24_FirstStateIsCurrent ==
    [][/\ (smLast'.op = "addState" /\ ~m_hasState) => m_currentState' = smLast'.arg
       /\ (smLast'.op = "addState" /\ m_hasState) => m_currentState' = m_currentState
       /\ smLast'.op \in {"addAction", "addTransition", "update"} =>
             m_currentState' = m_currentState
       /\ m_currentState' # m_currentState =>
             \/ smLast'.op = "addState" /\ ~m_hasState
             \/ smLast'.op = "transitionTo" /\ smLast'.res = "ok"
       /\ m_hasState' => m_currentState' \in m_states']_vars

\* a second state has just been added to a machine on which no transition has
\* ever been registered: the current state is still the first one
C24_Witness ==
    /\ smLast.op = "addState"
    /\ m_hasState
    /\ smLast.arg # m_currentState
    /\ m_transitions = {}
    /\ m_currentState \in m_states

(* ------------------------------- C25 ---------------------------------- *)
\* C25: for each type, instance() fails while no instantiate() has succeeded and
\* afterwards returns the object that instantiate() built; an instantiate() on a
\* type that has its instance fails and changes nothing; an instance, once there,
\* is never replaced, so every instance() call returns the same object.
C25_SingleInstance ==
    [][/\ \A t \in Types : s_instance[t] # NULL => s_instance'[t] = s_instance[t]
       /\ sgLast'.op = "instance" =>
             /\ s_instance' = s_instance
             /\ s_instance[sgLast'.type] = NULL =>
                   sgLast'.res = "not_created" /\ sgLast'.ret = NULL
             /\ s_instance[sgLast'.type] # NULL =>
                   sgLast'.res = "ok" /\ sgLast'.ret = s_instance[sgLast'.type]
       /\ sgLast'.op = "instantiate" =>
             /\ s_instance[sgLast'.type] # NULL =>
                   sgLast'.res = "already_created" /\ s_instance' = s_instance
             /\ sgLast'.res = "ok" =>
                   /\ s_instance[sgLast'.type] = NULL
                   /\ s_instance'[sgLast'.type] # NULL
             /\ sgLast'.res = "ctor_threw" => s_instance' = s_instance
             /\ \A t \in Types \ {sgLast'.type} : s_instance'[t] = s_instance[t]]_vars

\* a second instantiate on a type has just failed, its instance is there, and
\* another type has no instance yet
C25_Witness ==
    /\ sgLast.op = "instantiate" /\ sgLast.res = "already_created"
    /\ s_instance[sgLast.type] # NULL
    /\ \E t \in Types : s_instance[t] = NULL

(* ------------------------------- C34 ---------------------------------- *)
\* C34: a handle move-assigned from itself is left as it was: a valid handle stays
\* valid and bound to the same index, which stays off the free-index stack, and
\* the free-index stack, the slot store, available() and inUse() are unchanged.
C34_SelfMoveAssignIsNoOp ==
    [][(lastOp'.op = "move_assign" /\ lastOp'.res = "self") =>
          /\ objs' = objs
          /\ m_available' = m_available
          /\ m_objects' = m_objects
          /\ Len(m_available') = Len(m_available)
          /\ Len(m_objects') - Len(m_available') = Len(m_objects) - Len(m_available)
          /\ \A h \in Handles :
                (objs[h].live /\ isValid(objs[h]) /\ MoveAssign(h, h)) =>
                   /\ isValid(objs'[h])
                   /\ objs'[h].m_index = objs[h].m_index
                   /\ \A j \in 1..Len(m_available') :
                         m_available'[j] # objs[h].m_index]_vars

\* a handle that holds a binding has just been assigned from itself
C34_Witness ==
    /\ lastOp.op = "move_assign" /\ lastOp.res = "self"
    /\ \E h \in Handles : objs[h].live /\ isValid(objs[h])
    /\ Len(m_available) < Len(m_objects)

(* ------------------------------- C35 ---------------------------------- *)
\* C35: move-assigning an empty handle onto a handle that holds a binding pushes
\* the target's index on the free-index stack once, leaves both handles empty and
\* lowers inUse() by one; the destructor of either handle then pushes nothing.
C35_AssignEmptyReleasesTarget ==
    [][\A h \in Handles : \A src \in Handles \ {h} :
          (/\ lastOp'.op = "move_assign"
           /\ objs[h].live /\ isValid(objs[h])
           /\ objs[src].live /\ ~isValid(objs[src])
           /\ MoveAssign(h, src)) =>
             /\ m_available' = Append(m_available, objs[h].m_index)
             /\ objs'[h].live /\ ~isValid(objs'[h])
             /\ objs'[src].live /\ ~isValid(objs'[src])
             /\ Len(m_objects') - Len(m_available')
                   = Len(m_objects) - Len(m_available) - 1
             /\ ObjectDtor(objs'[h], m_available') = m_available'
             /\ ObjectDtor(objs'[src], m_available') = m_available']_vars

\* an empty handle has just been assigned onto a handle that held a binding: an
\* index went back and the two handles in scope are empty
C35_Witness ==
    /\ lastOp.op = "move_assign" /\ lastOp.res = "ok" /\ lastOp.idx >= 0
    /\ Back(m_available) = lastOp.idx
    /\ \E h \in Handles : \E src \in Handles \ {h} :
          /\ objs[h].live /\ ~isValid(objs[h])
          /\ objs[src].live /\ ~isValid(objs[src])

(* ------------------------------- C33 ---------------------------------- *)
\* C33: in every state reached by resize (also while leases are outstanding),
\* acquire, disposals and moves, every index on the free-index stack is smaller
\* than size() and available() <= size(), so that acquire indexes the slot store
\* in range and size() - available() is not negative.
C33_FreeIndicesInRange ==
    ~crashed =>
       /\ \A j \in 1..Len(m_available) : m_available[j] < Len(m_objects)
       /\ Len(m_available) <= Len(m_objects)
       /\ Len(m_objects) - Len(m_available) >= 0
       /\ Len(m_available) > 0 => Back(m_available) < Len(m_objects)

(* ------------------------------- C32 ---------------------------------- *)
\* C32: a destructor runs only on a slot that holds a constructed object: the
\* slot an acquire destroys before it constructs, every slot a successful resize
\* deletes and every slot the destructor of the pool deletes holds an object
\* whose constructor completed and whose destructor has not run since.
C32_DestroyOnlyConstructed ==
    [][/\ (lastOp'.op = "acquire" /\ lastOp'.res # "PoolExhausted") =>
             /\ lastOp'.idx < Len(m_objects)
             /\ At(m_objects, lastOp'.idx) # Dead
       /\ (lastOp'.op = "resize" /\ lastOp'.res = "ok") =>
             \A j \in 1..Len(m_objects) : m_objects[j] # Dead
       /\ lastOp'.op = "~Pool" =>
             \A j \in 1..Len(m_objects) : m_objects[j] # Dead]_vars

====
